---- MODULE Spec2Model ----
(***************************************************************************)
(* Model of dwd_alerts (src/src/lib.rs): WarningList::get_new, the         *)
(* conversion TryFrom<WarningResponse> for WarningList, From<WarningRaw>   *)
(* for Warning, and Warning::is_current.                                   *)
(*                                                                         *)
(* A response text is a sequence of text elements.  An element is either   *)
(* one character, [t |-> "ch", c |-> "x"], or a whole JSON value standing  *)
(* for the span of text that spells it: [t |-> "int", n], [t |-> "str", s],*)
(* [t |-> "null"], [t |-> "arr", a |-> <<values>>] or                      *)
(* [t |-> "obj", m |-> <<<<key, value>>, ...>>] (members in text order,    *)
(* so that duplicate and unknown keys can be written).                     *)
(*                                                                         *)
(* A variable of the call holds None until the call assigns it.  pc is the  *)
(* position of the call; "returned" and "panicked" are its two ends.       *)
(*                                                                         *)
(* Timestamps are epoch milliseconds.  chrono's representable range is     *)
(* scaled down to MIN_SECS .. MAX_SECS seconds so that values on both      *)
(* sides of each limit are small integers.                                 *)
(***************************************************************************)
EXTENDS Integers, Sequences, FiniteSets

VARIABLES pc, raw_response, data, response, time, iter, raw_warnings,
          warnings, warninglist, result, call

vars == <<pc, raw_response, data, response, time, iter, raw_warnings,
          warnings, warninglist, result, call>>

(***************************************************************************)
(* Bounds                                                                  *)
(***************************************************************************)
\* Largest number of alerts in one payload (summed over the region groups).
MaxAlerts == 3

\* Last representable second (scaled stand-in for chrono's NaiveDateTime::MAX).
MAX_SECS == 2

\* First representable second (chrono's range reaches one unit further down).
MIN_SECS == -(MAX_SECS + 1)

MaxMillis == MAX_SECS * 1000 + 999

MinMillis == MIN_SECS * 1000

(***************************************************************************)
(* Option and Result values.  A variable of the call is None until the     *)
(* call assigns it, and Some(value) from then on.                          *)
(***************************************************************************)
None == [some |-> FALSE]

Some(x) == [some |-> TRUE, v |-> x]

Ok(x) == [ok |-> TRUE, v |-> x]

Err(e) == [ok |-> FALSE, err |-> e]

\* enum Error
Error == {"DeserializationError", "ResponseProcessingError",
          "RequestResponseError", "DateParsingError"}

(***************************************************************************)
(* Text                                                                    *)
(***************************************************************************)
Ch(c) == [t |-> "ch", c |-> c]

Text(s) == [i \in 1..Len(s) |-> Ch(s[i])]

\* "warnWetter.loadWarnings("
PREFIX == Text(<<"w","a","r","n","W","e","t","t","e","r",".","l","o","a","d",
                 "W","a","r","n","i","n","g","s","(">>)

\* ");"
SUFFIX == Text(<<")", ";">>)

\* str::strip_prefix
strip_prefix(s, p) ==
    IF Len(s) >= Len(p) /\ SubSeq(s, 1, Len(p)) = p
    THEN Some(SubSeq(s, Len(p) + 1, Len(s)))
    ELSE None

\* Faulty variant of strip_suffix: a text without the suffix is passed on whole.
strip_suffix_lenient(s, p) ==
    IF Len(s) >= Len(p) /\ SubSeq(s, Len(s) - Len(p) + 1, Len(s)) = p
    THEN Some(SubSeq(s, 1, Len(s) - Len(p)))
    ELSE Some(s)

\* str::strip_suffix
strip_suffix(s, p) ==
    IF Len(s) >= Len(p) /\ SubSeq(s, Len(s) - Len(p) + 1, Len(s)) = p
    THEN Some(SubSeq(s, 1, Len(s) - Len(p)))
    ELSE None

(***************************************************************************)
(* JSON values                                                             *)
(***************************************************************************)
JInt(n) == [t |-> "int", n |-> n]

JStr(s) == [t |-> "str", s |-> s]

JNull == [t |-> "null"]

JArr(a) == [t |-> "arr", a |-> a]

JObj(m) == [t |-> "obj", m |-> m]

(***************************************************************************)
(* serde / serde_json: deserialisation of the wire schema                  *)
(***************************************************************************)
DeErr == Err("DeserializationError")

\* The values of a sequence of members.
MemberValues(ms) == [i \in 1..Len(ms) |-> ms[i][2]]

\* The values of the members of an object that are spelled with key k.
Values(m, k) == MemberValues(SelectSeq(m, LAMBDA p : p[1] = k))

\* The results of the parts of a value, gathered: the first error ends the
\* deserialisation (every error is a DeserializationError).
Collect(f) ==
    IF \A k \in DOMAIN f : f[k].ok
    THEN Ok([k \in DOMAIN f |-> f[k].v])
    ELSE DeErr

de_i64(v) == IF v.t = "int" THEN Ok(v.n) ELSE DeErr

de_u8(v) == IF v.t = "int" /\ v.n \in 0..255 THEN Ok(v.n) ELSE DeErr

de_String(v) == IF v.t = "str" THEN Ok(v.s) ELSE DeErr

\* Option<i64>: null is None, and so is a field that is not spelled.
de_Option_i64(v) ==
    IF v.t \in {"null", "missing"} THEN Ok(None)
    ELSE IF v.t = "int" THEN Ok(Some(v.n))
    ELSE DeErr

\* What a derived struct finds for a field, vs the values spelled for its
\* key: the value, or the mark of a missing or of a duplicate field (both are
\* errors for a required field, whose type accepts neither mark).
Single(vs) ==
    IF Len(vs) = 1 THEN vs[1]
    ELSE IF Len(vs) = 0 THEN [t |-> "missing"]
    ELSE [t |-> "duplicate"]

\* The field of a derived struct spelled with key k.
Field(m, k) == Single(Values(m, k))

\* struct WarningRaw, visit_map: the value spelled for each field,
\* #[serde(rename_all = "camelCase")] and #[serde(rename = "type")]; keys
\* that name no field are ignored.
WarningRaw_visit_map(m) ==
    [state          |-> Field(m, "state"),
     category       |-> Field(m, "type"),
     level          |-> Field(m, "level"),
     start          |-> Field(m, "start"),
     end            |-> Field(m, "end"),
     region_name    |-> Field(m, "regionName"),
     event          |-> Field(m, "event"),
     headline       |-> Field(m, "headline"),
     instruction    |-> Field(m, "instruction"),
     description    |-> Field(m, "description"),
     state_short    |-> Field(m, "stateShort"),
     altitude_start |-> Field(m, "altitudeStart"),
     altitude_end   |-> Field(m, "altitudeEnd")]

\* struct WarningRaw, visit_seq: the elements of an array are the values of
\* the fields in the order of their declaration.
WarningRaw_visit_seq(a) ==
    [state          |-> a[1],
     category       |-> a[2],
     level          |-> a[3],
     start          |-> a[4],
     end            |-> a[5],
     region_name    |-> a[6],
     event          |-> a[7],
     headline       |-> a[8],
     instruction    |-> a[9],
     description    |-> a[10],
     state_short    |-> a[11],
     altitude_start |-> a[12],
     altitude_end   |-> a[13]]

\* struct WarningRaw: each field by its type.
WarningRaw_fields(f) ==
    Collect([state          |-> de_String(f.state),
             category       |-> de_u8(f.category),
             level          |-> de_u8(f.level),
             start          |-> de_i64(f.start),
             end            |-> de_Option_i64(f.end),
             region_name    |-> de_String(f.region_name),
             event          |-> de_String(f.event),
             headline       |-> de_String(f.headline),
             instruction    |-> de_String(f.instruction),
             description    |-> de_String(f.description),
             state_short    |-> de_String(f.state_short),
             altitude_start |-> de_Option_i64(f.altitude_start),
             altitude_end   |-> de_Option_i64(f.altitude_end)])

\* struct WarningRaw, #[derive(Deserialize)]: a JSON object, or a JSON array
\* of exactly as many elements as the struct has fields (an array that ends
\* early, or goes on, is an error).
de_WarningRaw(v) ==
    IF v.t = "obj" THEN WarningRaw_fields(WarningRaw_visit_map(v.m))
    ELSE IF v.t = "arr" /\ Len(v.a) = 13
    THEN WarningRaw_fields(WarningRaw_visit_seq(v.a))
    ELSE DeErr

\* Vec<WarningRaw>
de_Vec_WarningRaw(v) ==
    IF v.t # "arr" THEN DeErr
    ELSE Collect([i \in 1..Len(v.a) |-> de_WarningRaw(v.a[i])])

\* HashMap::insert for every member in text order, r the result of
\* deserialising the members' values: for a key spelled twice the last value
\* stays.
InsertAll(m, r) ==
    IF ~r.ok THEN r
    ELSE Ok([k \in {m[i][1] : i \in 1..Len(m)} |->
               r.v[CHOOSE i \in 1..Len(m) :
                      /\ m[i][1] = k
                      /\ \A j \in 1..Len(m) : m[j][1] = k => j <= i]])

\* HashMap<String, Vec<WarningRaw>>: every member is deserialised.
de_HashMap(v) ==
    IF v.t # "obj" THEN DeErr
    ELSE InsertAll(v.m, Collect([i \in 1..Len(v.m) |->
                                    de_Vec_WarningRaw(v.m[i][2])]))

\* HashMap<(), ()>: a key of a JSON object is a string and never a unit, so
\* only the empty object deserialises.
de_HashMap_unit(v) ==
    IF v.t = "obj" /\ Len(v.m) = 0 THEN Ok(<<>>) ELSE DeErr

\* struct WarningResponse: each field by its type.
WarningResponse_fields(f) ==
    Collect([time              |-> de_i64(f.time),
             warnings          |-> de_HashMap(f.warnings),
             vorab_information |-> de_HashMap_unit(f.vorab_information),
             copyright         |-> de_String(f.copyright)])

\* struct WarningResponse, #[derive(Deserialize)],
\* #[serde(rename_all = "camelCase")]: a JSON object, or a JSON array of
\* exactly the four field values in the order of their declaration.
de_WarningResponse(v) ==
    IF v.t = "obj"
    THEN WarningResponse_fields(
           [time              |-> Field(v.m, "time"),
            warnings          |-> Field(v.m, "warnings"),
            vorab_information |-> Field(v.m, "vorabInformation"),
            copyright         |-> Field(v.m, "copyright")])
    ELSE IF v.t = "arr" /\ Len(v.a) = 4
    THEN WarningResponse_fields(
           [time              |-> v.a[1],
            warnings          |-> v.a[2],
            vorab_information |-> v.a[3],
            copyright         |-> v.a[4]])
    ELSE DeErr

Whitespace == {Ch(" "), Ch("\n"), Ch("\r"), Ch("\t")}

\* Faulty variant of de_Document: what follows the first JSON value is ignored.
de_Document_lenient(body) ==
    IF Len(body) >= 1 /\ body[1].t # "ch"
    THEN de_WarningResponse(body[1])
    ELSE DeErr

\* The text with its whitespace dropped holds one JSON value and no more.
de_Document(body) ==
    IF Len(body) = 1 /\ body[1].t # "ch"
    THEN de_WarningResponse(body[1])
    ELSE DeErr

\* serde_json::from_str::<WarningResponse>: one JSON value, with nothing but
\* whitespace before and after it.
from_str(s) ==
    de_Document(SelectSeq(s, LAMBDA e : e \notin Whitespace))

(***************************************************************************)
(* chrono                                                                  *)
(***************************************************************************)
\* NaiveDateTime::from_timestamp_millis: seconds and nanoseconds by
\* Euclidean division, None outside the representable range.
from_timestamp_millis(millis) ==
    LET secs  == millis \div 1000
        nsecs == (millis % 1000) * 1000000
    IN  IF secs >= MIN_SECS /\ secs <= MAX_SECS
        THEN Some([secs |-> secs, nsecs |-> nsecs])
        ELSE None

\* DateTime::<Utc>::from_utc
from_utc(naive, offset) == [datetime |-> naive, offset |-> offset]

\* Ord for DateTime<Utc>: by the instant, seconds first.  -1, 0 or 1.
cmp(a, b) ==
    IF a.datetime.secs < b.datetime.secs THEN -1
    ELSE IF a.datetime.secs > b.datetime.secs THEN 1
    ELSE IF a.datetime.nsecs < b.datetime.nsecs THEN -1
    ELSE IF a.datetime.nsecs > b.datetime.nsecs THEN 1
    ELSE 0

(***************************************************************************)
(* Warning                                                                 *)
(***************************************************************************)
\* Option::unwrap
Panics(o) == ~o.some

\* Faulty variant of Warning_from: an end that cannot be converted becomes None.
Warning_from_end_unchecked(value) ==
    LET start == from_timestamp_millis(value.start)
    IN  IF Panics(start)
        THEN [panic |-> TRUE]
        ELSE [panic |-> FALSE,
              v |-> [value EXCEPT
                       !.start = from_utc(start.v, "Utc"),
                       !.end = IF value.end.some
                                  /\ from_timestamp_millis(value.end.v).some
                               THEN Some(from_utc(from_timestamp_millis(value.end.v).v,
                                                  "Utc"))
                               ELSE None]]

\* Faulty variant of Warning_from: the region name is taken from the state.
Warning_from_mixed(value) ==
    LET start == from_timestamp_millis(value.start)
        end   == IF value.end.some
                 THEN from_timestamp_millis(value.end.v)
                 ELSE Some(None)
    IN  IF Panics(start) \/ Panics(end)
        THEN [panic |-> TRUE]
        ELSE [panic |-> FALSE,
              v |-> [value EXCEPT
                       !.start = from_utc(start.v, "Utc"),
                       !.end = IF value.end.some
                               THEN Some(from_utc(end.v, "Utc"))
                               ELSE None,
                       !.region_name = value.state]]

\* impl From<WarningRaw> for Warning: [panic |-> TRUE] when an unwrap panics,
\* the Warning otherwise.
Warning_from(value) ==
    LET start == from_timestamp_millis(value.start)
        end   == IF value.end.some
                 THEN from_timestamp_millis(value.end.v)
                 ELSE Some(None)
    IN  IF Panics(start) \/ Panics(end)
        THEN [panic |-> TRUE]
        ELSE [panic |-> FALSE,
              v |-> [state          |-> value.state,
                     category       |-> value.category,
                     level          |-> value.level,
                     start          |-> from_utc(start.v, "Utc"),
                     end            |-> IF value.end.some
                                        THEN Some(from_utc(end.v, "Utc"))
                                        ELSE None,
                     region_name    |-> value.region_name,
                     event          |-> value.event,
                     headline       |-> value.headline,
                     instruction    |-> value.instruction,
                     description    |-> value.description,
                     state_short    |-> value.state_short,
                     altitude_start |-> value.altitude_start,
                     altitude_end   |-> value.altitude_end]]

\* Faulty variant of is_current: a warning that ends now is current.
is_current_inclusive(self, now) ==
    IF ~self.end.some THEN TRUE
    ELSE cmp(now, self.end.v) <= 0

\* Warning::is_current at wall-clock time now
is_current(self, now) ==
    IF ~self.end.some THEN TRUE
    ELSE cmp(now, self.end.v) < 0

(***************************************************************************)
(* Vec::sort_by_key(|f| f.start): a stable sort                            *)
(***************************************************************************)
\* Faulty variant of Insert: w goes before the elements with an equal key.
Insert_before_equal(s, w) ==
    LET n == Cardinality({i \in 1..Len(s) : cmp(s[i].start, w.start) < 0})
    IN  SubSeq(s, 1, n) \o <<w>> \o SubSeq(s, n + 1, Len(s))

\* s is sorted; w goes behind every element whose key is not greater.
Insert(s, w) ==
    LET n == Cardinality({i \in 1..Len(s) : cmp(s[i].start, w.start) <= 0})
    IN  SubSeq(s, 1, n) \o <<w>> \o SubSeq(s, n + 1, Len(s))

\* Faulty variant of sort_by_key: the vector is left as it is.
sort_by_key_skipped(s) == s

RECURSIVE sort_by_key(_)
sort_by_key(s) ==
    IF Len(s) = 0 THEN <<>>
    ELSE Insert(sort_by_key(SubSeq(s, 1, Len(s) - 1)), s[Len(s)])


(***************************************************************************)
(* Inputs: the response bodies the endpoint may send                       *)
(***************************************************************************)
\* One alert object of the wire format.
Alert(f) ==
    JObj(<< <<"state", JStr(f.state)>>, <<"type", JInt(f.category)>>,
            <<"level", JInt(f.level)>>, <<"start", JInt(f.start)>>,
            <<"end", f.end>>, <<"regionName", JStr(f.region_name)>>,
            <<"event", JStr(f.event)>>, <<"headline", JStr(f.headline)>>,
            <<"instruction", JStr(f.instruction)>>,
            <<"description", JStr(f.description)>>,
            <<"stateShort", JStr(f.state_short)>>,
            <<"altitudeStart", f.altitude_start>>,
            <<"altitudeEnd", f.altitude_end>> >>)

\* Alerts whose timestamps are all representable; the first two start at the
\* same instant, the third a millisecond earlier.
GoodAlerts ==
    << Alert([state |-> "Bavaria", category |-> 1, level |-> 2, start |-> 1000,
              end |-> JNull, region_name |-> "Munich", event |-> "Storm",
              headline |-> "Storm Warning", instruction |-> "Stay inside",
              description |-> "Severe storm", state_short |-> "BY",
              altitude_start |-> JNull, altitude_end |-> JNull]),
       Alert([state |-> "Hamburg", category |-> 2, level |-> 3, start |-> 1000,
              end |-> JInt(2500), region_name |-> "Altona", event |-> "Frost",
              headline |-> "Frost Warning", instruction |-> "Drive slowly",
              description |-> "Black ice", state_short |-> "HH",
              altitude_start |-> JInt(0), altitude_end |-> JInt(100)]),
       Alert([state |-> "Hessen", category |-> 3, level |-> 1, start |-> 999,
              end |-> JInt(1000), region_name |-> "Kassel", event |-> "Fog",
              headline |-> "Fog Warning", instruction |-> "Use lights",
              description |-> "Dense fog", state_short |-> "HE",
              altitude_start |-> JInt(200), altitude_end |-> JNull]),
       Alert([state |-> "Berlin", category |-> 255, level |-> 0, start |-> -1,
              end |-> JInt(MaxMillis), region_name |-> "Mitte", event |-> "Heat",
              headline |-> "Heat Warning", instruction |-> "Drink water",
              description |-> "Extreme heat", state_short |-> "BE",
              altitude_start |-> JNull, altitude_end |-> JInt(-5)]) >>

\* Alerts with a start, or an end, outside the representable range.
OobAlerts ==
    << Alert([state |-> "", category |-> 69, level |-> 0,
              start |-> MaxMillis + 1, end |-> JNull, region_name |-> "",
              event |-> "", headline |-> "", instruction |-> "",
              description |-> "", state_short |-> "",
              altitude_start |-> JNull, altitude_end |-> JNull]),
       Alert([state |-> "Saxony", category |-> 5, level |-> 4, start |-> 0,
              end |-> JInt(MinMillis - 1), region_name |-> "Dresden",
              event |-> "Flood", headline |-> "Flood Warning",
              instruction |-> "Leave", description |-> "High water",
              state_short |-> "SN", altitude_start |-> JNull,
              altitude_end |-> JNull]) >>

Alerts == {GoodAlerts[i] : i \in DOMAIN GoodAlerts}
              \cup {OobAlerts[i] : i \in DOMAIN OobAlerts}

\* The sequences over S of length at most n.
SeqsUpTo(S, n) == UNION {[1..k -> S] : k \in 0..n}

\* The response object around the members of "warnings".
Payload(t, groups) ==
    JObj(<< <<"time", JInt(t)>>, <<"warnings", JObj(groups)>>,
            <<"vorabInformation", JObj(<<>>)>>, <<"copyright", JStr("DWD")>> >>)

\* Payloads of two region groups holding at most MaxAlerts alerts, with a
\* response time inside and outside the representable range.
Payloads ==
    {Payload(t, << <<"HH", JArr(SubSeq(s, 1, j))>>,
                   <<"BY", JArr(SubSeq(s, j + 1, Len(s)))>> >>) :
        <<t, s, j>> \in {x \in {1700, MaxMillis + 1} \X SeqsUpTo(Alerts, MaxAlerts)
                                                      \X (0..MaxAlerts) :
                            x[3] <= Len(x[2])}}

\* A struct written as the array of its field values; Alert and Payload
\* spell the fields in the order of their declaration.
ArrayForm(o) == JArr(MemberValues(o.m))

\* Payloads at the limits of the range, with one, no and repeated group keys,
\* with an unknown key, with an alert that spells no "end", and with advance
\* information; payloads and alerts in array form.
EdgePayloads ==
    LET g  == GoodAlerts
        ne == JObj(SelectSeq(g[2].m, LAMBDA p : p[1] # "end"))
    IN  { Payload(MaxMillis, << <<"HH", JArr(<<g[1]>>)>> >>),
          Payload(MinMillis, << <<"HH", JArr(<<g[3], ne>>)>> >>),
          Payload(MinMillis - 1, << <<"HH", JArr(<<g[1]>>)>> >>),
          Payload(0, <<>>),
          Payload(0, << <<"HH", JArr(<<g[1]>>)>>, <<"HH", JArr(<<g[2], g[3]>>)>> >>),
          JObj(Payload(0, << <<"BY", JArr(<<g[4]>>)>> >>).m
                   \o << <<"license", JStr("x")>> >>),
          JObj(<< <<"time", JInt(0)>>, <<"warnings", JObj(<<>>)>>,
                  <<"vorabInformation", JObj(<< <<"x", JObj(<<>>)>> >>)>>,
                  <<"copyright", JStr("DWD")>> >>),
          ArrayForm(Payload(0, << <<"HH", JArr(<<g[1], g[2]>>)>> >>)),
          Payload(0, << <<"HH", JArr(<<ArrayForm(g[2]), g[3], ArrayForm(g[1])>>)>> >>),
          Payload(0, << <<"HH", JArr(<<g[4], ArrayForm(OobAlerts[2])>>)>> >>),
          ArrayForm(Payload(MaxMillis + 1,
                            << <<"BY", JArr(<<ArrayForm(OobAlerts[1])>>)>> >>)) }

\* JSON values that do not match the schema.
BadPayloads ==
    LET g == GoodAlerts
        p == Payload(0, << <<"HH", JArr(<<g[1]>>)>> >>)
        without(o, k) == JObj(SelectSeq(o.m, LAMBDA q : q[1] # k))
        with(o, k, v) == JObj(without(o, k).m \o << <<k, v>> >>)
    IN  { without(p, "copyright"),
          without(p, "vorabInformation"),
          JObj(p.m \o << <<"time", JInt(1)>> >>),
          Payload(0, << <<"HH", JArr(<<without(g[1], "state")>>)>> >>),
          Payload(0, << <<"HH", JArr(<<with(g[1], "level", JInt(256))>>)>> >>),
          Payload(0, << <<"HH", JArr(<<with(g[1], "type", JInt(-1))>>)>> >>),
          Payload(0, << <<"HH", JArr(<<with(g[1], "end", JStr("never"))>>)>> >>),
          Payload(0, << <<"HH", JArr(<<with(g[1], "headline", JNull)>>)>> >>),
          Payload(0, << <<"HH", g[1]>> >>),
          Payload(0, << <<"HH", JArr(<<OobAlerts[1]>>)>>, <<"BY", JNull>> >>),
          JObj(<< <<"time", JStr("now")>>, <<"warnings", JObj(<<>>)>>,
                  <<"vorabInformation", JObj(<<>>)>>, <<"copyright", JStr("DWD")>> >>),
          JInt(0), JNull, JArr(<<>>),
          JArr(SubSeq(ArrayForm(p).a, 1, 3)),
          JArr(ArrayForm(p).a \o <<JNull>>),
          JArr(<<JStr("0")>> \o Tail(ArrayForm(p).a)),
          Payload(0, << <<"HH", JArr(<<JArr(SubSeq(ArrayForm(g[1]).a, 1, 11))>>)>> >>),
          Payload(0, << <<"HH", JArr(<<JArr(ArrayForm(g[1]).a \o <<JNull>>)>>)>> >>),
          Payload(0, << <<"HH", JArr(<<JArr(<<JNull>> \o Tail(ArrayForm(g[1]).a))>>)>> >>) }

\* "warnWetter.loadWarnings(<body>);"
Wrap(body) == PREFIX \o body \o SUFFIX

\* A payload used in the texts below.
OnePayload == <<Payload(1700, << <<"HH", JArr(<<GoodAlerts[1]>>)>> >>)>>

\* Texts that do not begin with the prefix or do not end with the suffix.
BadEnvelopeTexts ==
    LET p == OnePayload
    IN  { <<>>, p, PREFIX, SUFFIX,
          p \o SUFFIX,
          PREFIX \o p,
          PREFIX \o p \o Text(<<")">>),
          PREFIX \o p \o Text(<<";">>),
          Wrap(p) \o Text(<<"\n">>),
          Text(<<" ">>) \o Wrap(p),
          SubSeq(PREFIX, 1, Len(PREFIX) - 1) \o p \o SUFFIX,
          Text(<<"W">>) \o SubSeq(PREFIX, 2, Len(PREFIX)) \o p \o SUFFIX,
          SubSeq(PREFIX, 1, Len(PREFIX) - 1) \o SUFFIX }

\* Texts in the envelope whose body is not one JSON document.
BadBodyTexts ==
    LET p == OnePayload
    IN  { Wrap(<<>>),
          Wrap(p \o SUFFIX),
          Wrap(PREFIX \o p),
          Wrap(Text(<<"{">>)),
          Wrap(Text(<<"{", "}">>)),
          Wrap(Text(<<" ">>)),
          Wrap(p \o p),
          Wrap(p \o Text(<<"x">>)) }

\* Texts in the envelope whose body is a JSON document within whitespace.
PaddedTexts ==
    LET p == OnePayload
    IN  { Wrap(Text(<<" ", "\n">>) \o p \o Text(<<"\t">>)),
          Wrap(p \o Text(<<"\r", "\n">>)) }

\* The bodies blocking::get(API_URL)?.text()? may return.
ResponseTexts ==
    {Wrap(<<v>>) : v \in Payloads \cup EdgePayloads \cup BadPayloads}
        \cup BadEnvelopeTexts \cup BadBodyTexts \cup PaddedTexts

\* The values Utc::now() may return.
Nows ==
    {from_utc([secs |-> x[1], nsecs |-> x[2]], "Utc") :
        x \in {<<0, 999999999>>, <<1, 0>>, <<1, 1>>, <<2, 500000000>>,
               <<MAX_SECS, 999000000>>}}

(***************************************************************************)
(* WarningList::get_new, one step at a time                                *)
(***************************************************************************)
Init ==
    /\ pc = "get"
    /\ raw_response = None
    /\ data = None
    /\ response = None
    /\ time = None
    /\ iter = {}
    /\ raw_warnings = <<>>
    /\ warnings = <<>>
    /\ warninglist = None
    /\ result = None
    /\ call = None

\* return Err(e), also by the ? operator
Return(r) ==
    /\ pc' = "returned"
    /\ result' = Some(r)

\* blocking::get(API_URL)?.text()? fails
RequestFails ==
    /\ pc = "get"
    /\ Return(Err("RequestResponseError"))
    /\ UNCHANGED <<raw_response, data, response, time, iter, raw_warnings,
                   warnings, warninglist, call>>

\* blocking::get(API_URL)?.text()? returns a body
Request ==
    /\ pc = "get"
    /\ \E text \in ResponseTexts : raw_response' = Some(text)
    /\ pc' = "strip_prefix"
    /\ UNCHANGED <<data, response, time, iter, raw_warnings, warnings,
                   warninglist, result, call>>

\* match raw_response.strip_prefix("warnWetter.loadWarnings(")
StripPrefix ==
    /\ pc = "strip_prefix"
    /\ LET s == strip_prefix(raw_response.v, PREFIX)
       IN  IF s.some
           THEN /\ data' = s
                /\ pc' = "strip_suffix"
                /\ UNCHANGED result
           ELSE /\ Return(Err("ResponseProcessingError"))
                /\ UNCHANGED data
    /\ UNCHANGED <<raw_response, response, time, iter, raw_warnings, warnings,
                   warninglist, call>>

\* match data.strip_suffix(");")
StripSuffix ==
    /\ pc = "strip_suffix"
    /\ LET s == strip_suffix(data.v, SUFFIX)
       IN  IF s.some
           THEN /\ data' = s
                /\ pc' = "from_str"
                /\ UNCHANGED result
           ELSE /\ Return(Err("ResponseProcessingError"))
                /\ UNCHANGED data
    /\ UNCHANGED <<raw_response, response, time, iter, raw_warnings, warnings,
                   warninglist, call>>

\* serde_json::from_str::<WarningResponse>(&data)?
Deserialize ==
    /\ pc = "from_str"
    /\ LET r == from_str(data.v)
       IN  /\ response' = Some(r)
           /\ IF r.ok
              THEN pc' = "try_from" /\ UNCHANGED result
              ELSE Return(r)
    /\ UNCHANGED <<raw_response, data, time, iter, raw_warnings, warnings,
                   warninglist, call>>

\* Faulty variant of ConvertTime: the response time is unwrapped.
ConvertTime_unwrap ==
    /\ pc = "try_from"
    /\ LET t == from_timestamp_millis(response.v.v.time)
       IN  IF t.some
           THEN /\ time' = Some(from_utc(t.v, "Utc"))
                /\ iter' = DOMAIN response.v.v.warnings
                /\ pc' = "flatten"
           ELSE /\ pc' = "panicked"
                /\ UNCHANGED <<time, iter>>
    /\ UNCHANGED <<raw_response, data, response, raw_warnings, warnings,
                   warninglist, result, call>>

\* try_from: the response time, then the iterator over value.warnings
ConvertTime ==
    /\ pc = "try_from"
    /\ LET t == from_timestamp_millis(response.v.v.time)
       IN  IF t.some
           THEN /\ time' = Some(from_utc(t.v, "Utc"))
                /\ iter' = DOMAIN response.v.v.warnings
                /\ pc' = "flatten"
                /\ UNCHANGED result
           ELSE /\ Return(Err("DateParsingError"))
                /\ UNCHANGED <<time, iter>>
    /\ UNCHANGED <<raw_response, data, response, raw_warnings, warnings,
                   warninglist, call>>

\* try_from: one turn of for (_, inst) in value.warnings; a HashMap yields
\* its entries in an arbitrary order.
FlattenGroup ==
    /\ pc = "flatten"
    /\ \E k \in iter :
          /\ raw_warnings' = raw_warnings \o response.v.v.warnings[k]
          /\ iter' = iter \ {k}
    /\ UNCHANGED <<pc, raw_response, data, response, time, warnings,
                   warninglist, result, call>>

\* try_from: the loop over value.warnings ends
FlattenDone ==
    /\ pc = "flatten"
    /\ iter = {}
    /\ pc' = "map"
    /\ UNCHANGED <<raw_response, data, response, time, iter, raw_warnings,
                   warnings, warninglist, result, call>>

\* Faulty variant of MapWarning: a warning that cannot be converted ends the call
\* with Err(DateParsingError).
MapWarning_err ==
    /\ pc = "map"
    /\ raw_warnings # <<>>
    /\ LET w == Warning_from(Head(raw_warnings))
       IN  IF w.panic
           THEN /\ Return(Err("DateParsingError"))
                /\ UNCHANGED <<raw_warnings, warnings>>
           ELSE /\ warnings' = Append(warnings, w.v)
                /\ raw_warnings' = Tail(raw_warnings)
                /\ UNCHANGED <<pc, result>>
    /\ UNCHANGED <<raw_response, data, response, time, iter, warninglist, call>>

\* Faulty variant of MapWarning: a warning that cannot be converted is skipped.
MapWarning_skip ==
    /\ pc = "map"
    /\ raw_warnings # <<>>
    /\ LET w == Warning_from(Head(raw_warnings))
       IN  /\ warnings' = IF w.panic THEN warnings ELSE Append(warnings, w.v)
           /\ raw_warnings' = Tail(raw_warnings)
    /\ UNCHANGED <<pc, raw_response, data, response, time, iter, warninglist,
                   result, call>>

\* try_from: warnings.push(Warning::from(w)) for the next raw warning
MapWarning ==
    /\ pc = "map"
    /\ raw_warnings # <<>>
    /\ LET w == Warning_from(Head(raw_warnings))
       IN  IF w.panic
           THEN /\ pc' = "panicked"
                /\ UNCHANGED <<raw_warnings, warnings>>
           ELSE /\ warnings' = Append(warnings, w.v)
                /\ raw_warnings' = Tail(raw_warnings)
                /\ UNCHANGED pc
    /\ UNCHANGED <<raw_response, data, response, time, iter, warninglist,
                   result, call>>

\* try_from: return Ok(WarningList { time, warnings, copyright })
TryFromReturn ==
    /\ pc = "map"
    /\ raw_warnings = <<>>
    /\ warninglist' = Some([time |-> time.v, warnings |-> warnings,
                            copyright |-> response.v.v.copyright])
    /\ pc' = "sort"
    /\ UNCHANGED <<raw_response, data, response, time, iter, raw_warnings,
                   warnings, result, call>>

\* warninglist.warnings.sort_by_key(|f| f.start); return Ok(warninglist)
SortReturn ==
    /\ pc = "sort"
    /\ LET sorted == [warninglist.v EXCEPT !.warnings = sort_by_key(@)]
       IN  /\ warninglist' = Some(sorted)
           /\ Return(Ok(sorted))
    /\ UNCHANGED <<raw_response, data, response, time, iter, raw_warnings,
                   warnings, call>>

\* The caller asks a warning of the returned list whether it is current.
IsCurrent ==
    /\ pc = "returned"
    /\ result.v.ok
    /\ \E i \in 1..Len(result.v.v.warnings), now \in Nows :
          call' = Some([self |-> result.v.v.warnings[i], now |-> now,
                        ret |-> is_current(result.v.v.warnings[i], now)])
    /\ UNCHANGED <<pc, raw_response, data, response, time, iter, raw_warnings,
                   warnings, warninglist, result>>

Next ==
    \/ RequestFails
    \/ Request
    \/ StripPrefix
    \/ StripSuffix
    \/ Deserialize
    \/ ConvertTime
    \/ FlattenGroup
    \/ FlattenDone
    \/ MapWarning
    \/ TryFromReturn
    \/ SortReturn
    \/ IsCurrent

Spec == Init /\ [][Next]_vars


(***************************************************************************)
(* Vocabulary of the properties, stated without the operators above        *)
(***************************************************************************)
\* The call has ended: it returned, or it panicked.
Terminal == pc \in {"returned", "panicked"}

\* The instant of a DateTime<Utc> in epoch milliseconds (exact for the
\* timestamps of a warning, which come from milliseconds).
Millis(dt) == dt.datetime.secs * 1000 + dt.datetime.nsecs \div 1000000

\* Instant a is strictly after instant b.
After(a, b) ==
    \/ a.datetime.secs > b.datetime.secs
    \/ a.datetime.secs = b.datetime.secs /\ a.datetime.nsecs > b.datetime.nsecs

\* An epoch-millisecond value with no calendar timestamp.
OutOfRange(millis) == millis < MinMillis \/ millis > MaxMillis

\* A raw warning whose start, or whose end when present, is out of range.
OobRaw(raw) == OutOfRange(raw.start) \/ (raw.end.some /\ OutOfRange(raw.end.v))

BeginsWith(s, p) == Len(s) >= Len(p) /\ \A i \in 1..Len(p) : s[i] = p[i]

EndsWith(s, p) ==
    Len(s) >= Len(p) /\ \A i \in 1..Len(p) : s[Len(s) - Len(p) + i] = p[i]

InEnvelope(s) == BeginsWith(s, PREFIX) /\ EndsWith(s, SUFFIX)

\* The positions <<group key, index>> of the raw warnings of a response.
RawPositions(r) ==
    UNION {{k} \X (1..Len(r.warnings[k])) : k \in DOMAIN r.warnings}

\* A Warning read back as the raw warning it came from.
ReadBack(w) ==
    [w EXCEPT !.start = Millis(w.start),
              !.end = IF w.end.some THEN Some(Millis(w.end.v)) ELSE None]

RECURSIVE IsSubseq(_, _)
\* a can be obtained from b by deleting elements.
IsSubseq(a, b) ==
    IF a = <<>> THEN TRUE
    ELSE IF b = <<>> THEN FALSE
    ELSE IF Head(a) = Head(b) THEN IsSubseq(Tail(a), Tail(b))
    ELSE IsSubseq(a, Tail(b))

\* get_new returned Ok(list).
Returned == pc = "returned" /\ result.v.ok

\* The WarningList that get_new returned.
List == result.v.v.warnings

\* from_str returned Ok(response).
Deserialized == response.some /\ response.v.ok

\* The WarningResponse that from_str returned.
Raw == response.v.v

\* The get_new call got as far as deserialising, or further.
ReachedFromStr == pc \in {"from_str", "try_from", "flatten", "map", "sort", "panicked"}
                     \/ response.some

\* The get_new call got as far as converting timestamps, or further.
ReachedConversion == pc \in {"try_from", "flatten", "map", "sort", "panicked"}
                        \/ time.some \/ warninglist.some

(***************************************************************************)
(* Properties                                                              *)
(***************************************************************************)
\* C1: the warnings of a WarningList returned by a successful get_new are in
\* non-decreasing order of start timestamp.
C1_SortedByStart ==
    Returned =>
        \A i \in 1..(Len(List) - 1) :
            Millis(List[i].start) <= Millis(List[i + 1].start)

\* C1 witness: a list was returned whose warnings came out of the conversion
\* in another order than by start.
C1_Witness ==
    /\ Returned
    /\ Len(List) >= 3
    /\ \E i \in 1..(Len(warnings) - 1) :
          Millis(warnings[i].start) > Millis(warnings[i + 1].start)

\* C2: is_current returns true if and only if the end is absent or strictly
\* after now; it returns false when the end equals now or is earlier.
C2_IsCurrentIff ==
    call.some =>
        (call.v.ret = (~call.v.self.end.some \/ After(call.v.self.end.v, call.v.now)))

\* C2 witness: is_current was asked at exactly the end of a warning.
C2_Witness ==
    /\ call.some
    /\ call.v.self.end.some
    /\ call.v.self.end.v = call.v.now
    /\ call.v.ret = FALSE

\* C3: a text that does not begin with the prefix or does not end with the
\* suffix fails with ResponseProcessingError and never reaches the JSON
\* deserialisation; a text with both hands exactly the text between them to
\* the deserialiser.
C3_EnvelopeChecked ==
    raw_response.some =>
        IF InEnvelope(raw_response.v)
        THEN ReachedFromStr =>
                data = Some(SubSeq(raw_response.v, Len(PREFIX) + 1,
                                   Len(raw_response.v) - Len(SUFFIX)))
        ELSE /\ ~ReachedFromStr
             /\ ~ReachedConversion
             /\ pc = "returned" => result = Some(Err("ResponseProcessingError"))

\* C3 witness: a text holding a JSON document after the prefix, but not
\* ending with the suffix, was rejected.
C3_Witness ==
    /\ pc = "returned"
    /\ raw_response.some
    /\ BeginsWith(raw_response.v, PREFIX)
    /\ ~EndsWith(raw_response.v, SUFFIX)
    /\ \E i \in 1..Len(raw_response.v) : raw_response.v[i].t = "obj"
    /\ result = Some(Err("ResponseProcessingError"))

\* C7: a text in the envelope whose body is not a JSON document of the
\* response schema fails with DeserializationError; neither the timestamp
\* conversion nor the sort is performed.
C7_MalformedBody ==
    (raw_response.some /\ raw_response.v \in {Wrap(<<v>>) : v \in BadPayloads} \cup BadBodyTexts) =>
        /\ ~ReachedConversion
        /\ pc = "returned" => result = Some(Err("DeserializationError"))
        /\ pc \in {"strip_prefix", "strip_suffix", "from_str", "returned"}

\* C7 witness: a document with all fields but a level that is no u8 was
\* rejected.
C7_Witness ==
    /\ pc = "returned"
    /\ result = Some(Err("DeserializationError"))
    /\ \E i \in 1..Len(raw_response.v) :
          /\ raw_response.v[i].t = "obj"
          /\ \E j \in 1..Len(raw_response.v[i].m) :
                /\ raw_response.v[i].m[j][1] = "warnings"
                /\ \E g \in 1..Len(raw_response.v[i].m[j][2].m) :
                      LET arr == raw_response.v[i].m[j][2].m[g][2]
                      IN  /\ arr.t = "arr"
                          /\ \E a \in 1..Len(arr.a) :
                                /\ arr.a[a].t = "obj"
                                /\ <<"level", JInt(256)>> \in
                                      {arr.a[a].m[x] : x \in 1..Len(arr.a[a].m)}

\* C5: a response time outside the representable range makes the conversion
\* return Err(DateParsingError), without a panic, whatever the warnings are.
C5_ResponseTimeOutOfRange ==
    (Deserialized /\ OutOfRange(Raw.time)) =>
        /\ pc \in {"try_from", "returned"}
        /\ ~warninglist.some
        /\ pc = "returned" => result = Some(Err("DateParsingError"))

\* C5 witness: the response time was out of range and so was a warning's
\* start.
C5_Witness ==
    /\ pc = "returned"
    /\ result = Some(Err("DateParsingError"))
    /\ \E p \in RawPositions(Raw) :
          OutOfRange(Raw.warnings[p[1]][p[2]].start)

\* C8: converting a raw warning panics whenever its start, or its end when
\* present, is out of range, and then no Warning is produced; it panics in
\* no other case.
C8_FromPanics ==
    [][(pc = "map" /\ raw_warnings # <<>>) =>
          IF OobRaw(Head(raw_warnings))
          THEN pc' = "panicked" /\ warnings' = warnings /\ ~result'.some
          ELSE pc' = "map" /\ Len(warnings') = Len(warnings) + 1]_vars

\* C8 witness: the conversion panicked on a warning whose start is in range
\* and whose end is not, after converting others.
C8_Witness ==
    /\ pc = "panicked"
    /\ ~OutOfRange(Head(raw_warnings).start)
    /\ Head(raw_warnings).end.some
    /\ OutOfRange(Head(raw_warnings).end.v)
    /\ Len(warnings) >= 1

\* C4 as stated: an alert with a start or end out of range makes the mapping
\* step return Err(DateParsingError) rather than panic.
C4_AsStated ==
    (Deserialized
        /\ \E p \in RawPositions(Raw) :
              OobRaw(Raw.warnings[p[1]][p[2]])) =>
        /\ pc # "panicked"
        /\ pc = "returned" => result = Some(Err("DateParsingError"))

\* C4 amended: with a representable response time, an alert with a start or
\* end out of range makes the mapping step panic: get_new returns neither a
\* WarningList nor an error.
C4_OobAlertPanics ==
    (Deserialized /\ ~OutOfRange(Raw.time)
        /\ \E p \in RawPositions(Raw) :
              OobRaw(Raw.warnings[p[1]][p[2]])) =>
        /\ pc \in {"try_from", "flatten", "map", "panicked"}
        /\ pc = "map" => raw_warnings # <<>>
        /\ ~result.some
        /\ ~warninglist.some

\* C4 witness: get_new panicked on an alert with a start out of range that
\* was not the first one converted.
C4_Witness ==
    /\ pc = "panicked"
    /\ OutOfRange(Head(raw_warnings).start)
    /\ Len(warnings) >= 1

\* The number of raw warnings of a response.
RawCount(r) == Cardinality(RawPositions(r))

\* C6 as stated: every call ends with a complete WarningList or with an
\* error returned to the caller.
C6_AsStated ==
    Terminal =>
        /\ result.some
        /\ result.v.ok => Len(List) = RawCount(Raw)
        /\ ~result.v.ok => result.v.err \in Error

\* C6 amended: a call ends with a complete WarningList, with an error
\* returned to the caller, or, when an alert's start or end is out of range
\* and the response time is not, with a panic; no list is exposed unless it
\* is complete, and each error names the stage that failed.
C6_CompleteOrErrorOrPanic ==
    /\ ~Terminal => ~result.some
    /\ pc = "panicked" =>
          /\ ~result.some /\ ~warninglist.some
          /\ ~OutOfRange(Raw.time)
          /\ \E p \in RawPositions(Raw) :
                OobRaw(Raw.warnings[p[1]][p[2]])
    /\ pc = "returned" =>
          /\ result.some
          /\ result.v.ok =>
                /\ Len(List) = RawCount(Raw)
                /\ result.v.v = warninglist.v
          /\ ~result.v.ok =>
                /\ ~warninglist.some
                /\ result.v.err \in Error
                /\ result.v.err = "RequestResponseError" <=> ~raw_response.some
                /\ result.v.err = "ResponseProcessingError" <=>
                      (raw_response.some /\ ~response.some)
                /\ result.v.err = "DeserializationError" <=>
                      (response.some /\ ~response.v.ok)
                /\ result.v.err = "DateParsingError" <=>
                      (Deserialized /\ ~time.some)

\* C6 witness: the call panicked after converting two warnings; the vector
\* holding them is not exposed.
C6_Witness ==
    /\ pc = "panicked"
    /\ Len(warnings) >= 2
    /\ ~result.some

\* The warnings of s that start at millisecond t, read back.
StartingAt(s, t) == SelectSeq(s, LAMBDA w : w.start = t)

\* A sequence of warnings read back.
ReadBackAll(s) == [i \in 1..Len(s) |-> ReadBack(s[i])]

\* C9: alerts of one region group with equal start timestamps appear in the
\* returned list in the order they have in the group's array.
C9_StableWithinGroup ==
    Returned =>
        \A k \in DOMAIN Raw.warnings :
            \A i \in 1..Len(Raw.warnings[k]) :
                LET t == Raw.warnings[k][i].start
                IN  IsSubseq(StartingAt(Raw.warnings[k], t),
                             StartingAt(ReadBackAll(List), t))

\* C9 witness: a returned list of three warnings with the same start, two
\* different ones of which came from one group.
C9_Witness ==
    /\ Returned
    /\ Len(List) >= 3
    /\ \A i \in 1..Len(List) :
          List[i].start = List[1].start
    /\ \E k \in DOMAIN Raw.warnings :
          /\ Len(Raw.warnings[k]) = 2
          /\ Raw.warnings[k][1] # Raw.warnings[k][2]

\* C10: on success the warnings of the list are in one-to-one correspondence
\* with the raw warnings of all region groups, each with its fields
\* unchanged.
C10_OneToOne ==
    Returned =>
        LET list == ReadBackAll(List)
            raws == RawPositions(Raw)
            raw(p) == Raw.warnings[p[1]][p[2]]
        IN  /\ Len(list) = Cardinality(raws)
            /\ \A x \in {raw(p) : p \in raws} \cup {list[i] : i \in 1..Len(list)} :
                  Cardinality({p \in raws : raw(p) = x}) =
                  Cardinality({i \in 1..Len(list) : list[i] = x})

\* C10 witness: a list was returned for a payload with warnings in both
\* groups, one of them twice.
C10_Witness ==
    /\ Returned
    /\ Len(List) >= 3
    /\ \A k \in DOMAIN Raw.warnings : Len(Raw.warnings[k]) >= 1
    /\ Cardinality(DOMAIN Raw.warnings) = 2
    /\ \E i, j \in 1..Len(List) :
          i # j /\ List[i] = List[j]


====
